---- MODULE Spec2Model ----
(***************************************************************************)
(* The blob-transfer protocol of xact: the sender of src/src/sender.rs     *)
(* (send_binary_blob over a TimedZMQTransaction) and the receiver of       *)
(* src/src/receiver.rs (BlobReceiver::run and its handlers).               *)
(*                                                                         *)
(* A frame is a sequence of bytes and a byte is a string, so that every    *)
(* frame on the wire can be compared with every other one, as the          *)
(* receiver does when it matches the second frame it reads against the     *)
(* verbs.  The clock counts milliseconds.                                  *)
(***************************************************************************)
EXTENDS Integers, Sequences, FiniteSets, TLC

\* ------------------------------------------------------------------ bounds
MaxLen == 2            \* longest blob a caller or a raw client announces
MaxChunk == 2          \* largest chunk_size a receiver is constructed with
TickStep == 5000       \* the clock advances in steps of this many ms
MaxTime == 10000       \* the clock stops once it has reached this
MaxRawMsgs == 3        \* messages a raw client sends in SpecRaw
MaxPeerMsgs == 5
MaxDestroys == 2
MaxMeterChunks == 10       \* replies an arbitrary peer sends in SpecPeer

\* ------------------------------------------------------- program constants
BLOB_TTL_SECONDS == 10
MAX_SIMUL_CHUNKS == 10
PING_TIMEOUT_MS == 500
DEFAULT_CHUNK_SIZE == 10000000
BIG_VEC_LEN == 100000000

\* ------------------------------------------------------------------ frames
PING == <<"P", "I", "N", "G">>
PONG == <<"P", "O", "N", "G">>
START == <<"S", "T", "A", "R", "T">>
GOGO == <<"G", "O", "G", "O">>
NOGO == <<"N", "O", "G", "O">>
TOKEN == <<"T", "O", "K", "E", "N">>
CHUNK == <<"C", "H", "U", "N", "K">>
END == <<"E", "N", "D">>
OK == <<"O", "K">>
FAIL == <<"F", "A", "I", "L">>
CONS == <<"C", "O", "N", "S">>
EMPTY == << >>
GREAT_SUCCESS == <<"Great success">>
HASH_MISMATCH == <<"Hash mismatch">>
NOGO_ARG == <<"0">>

\* The byte 0 of a zero-initialised buffer, and the bytes blobs are made of
\* (0x2a of the big-vector test, 'e' of "ermahgerd").
NUL == "NUL"
DataBytes == {"*", "e"}

Min(a, b) == IF a <= b THEN a ELSE b

Drop(s, n) == SubSeq(s, n + 1, Len(s))

RECURSIVE Replicate(_, _)
Replicate(x, n) == IF n = 0 THEN << >> ELSE <<x>> \o Replicate(x, n - 1)

RECURSIVE Flatten(_)
Flatten(ss) == IF ss = << >> THEN << >> ELSE Head(ss) \o Flatten(Tail(ss))

SeqsUpTo(S, n) == UNION {[1..k -> S] : k \in 0..n}

\* ------------------------------------------------- lib.rs: integer frames
DigitChars == <<"0", "1", "2", "3", "4", "5", "6", "7", "8", "9">>

DigitValue(c) == CHOOSE d \in 0..9 : DigitChars[d + 1] = c

IsDigit(c) == \E d \in 0..9 : DigitChars[d + 1] = c

\* format!("{}", num): the decimal digits of num, most significant first.
RECURSIVE int_to_bytes(_)
int_to_bytes(num) ==
  IF num < 10 THEN <<DigitChars[num + 1]>>
  ELSE int_to_bytes(num \div 10) \o <<DigitChars[(num % 10) + 1]>>

RECURSIVE DigitsValue(_, _)
DigitsValue(ds, acc) ==
  IF ds = << >> THEN acc ELSE DigitsValue(Tail(ds), 10 * acc + DigitValue(Head(ds)))

ParseError == -1

\* str::parse::<usize>: an optional '+', then one or more decimal digits
\* (leading zeros allowed); anything else is an error.  The model's numbers
\* stay far below usize::MAX, so the overflow error is not reached.
bytes_to_int(bytes) ==
  LET ds == IF bytes # << >> /\ Head(bytes) = "+" THEN Tail(bytes) ELSE bytes
  IN IF ds # << >> /\ \A i \in 1..Len(ds) : IsDigit(ds[i])
     THEN DigitsValue(ds, 0)
     ELSE ParseError

\* ------------------------------------------------ SHA-256 and hex encoding
\* The rolling hash is modelled by the bytes fed to it: an ideal hash, equal
\* for two inputs exactly when the inputs are equal.
Sha256New == << >>

Sha256Input(hash, bytes) == hash \o bytes

ResultBytes(hash) == hash

HexOf(b) ==
  CASE b = NUL -> <<"0", "0">>
    [] b = "*" -> <<"2", "a">>
    [] b = "e" -> <<"6", "5">>

\* to_hex: two lowercase hex digits per byte.
RECURSIVE ToHex(_)
ToHex(bytes) == IF bytes = << >> THEN << >> ELSE HexOf(Head(bytes)) \o ToHex(Tail(bytes))

\* ------------------------------------------------------------------- state
VARIABLES
  now,          \* the monotonic clock (Instant::now), in ms
  chunk_size,   \* BlobReceiver.chunk_size
  blobs,        \* BlobReceiver.blobs: sender_id -> Blob
  rstate,       \* "running", "stopped" (run returned) or "panicked"
  stop_chan,    \* values waiting in the stop channel
  wire,         \* the frames the ROUTER socket has still to hand to recv_bytes
  outbox,       \* per peer, the multipart messages on their way to its DEALER
  snd,          \* per caller, the state of its send_binary_blob call
  completed,    \* the on_complete calls made so far: [id, array, sid]
  nsessions,    \* history: Blobs created so far (a Blob's sid is its number)
  matched,      \* history: sids whose END carried the matching hash
  dropped,      \* history: sids removed from the table without on_complete
  credit,       \* history: per sender_id, for its current session, the
                \* TOKENs granted, the CHUNKs dispatched to it and the
                \* CHUNKs appended
  readied,      \* history: the on_ready calls: [id, size, answer]
  pruned_at,    \* history: the time of the last prune_dead_blobs
  nraw,         \* history: messages sent by raw clients
  npeer,        \* history: replies sent by an arbitrary peer
  teardown,     \* per owner of a socket and a context, the calls its drop
                \* made on them and their results; empty before the drop
  meter         \* the numbers of the chunk loop of a call on large data

vars == <<now, chunk_size, blobs, rstate, stop_chan, wire, outbox, snd,
          completed, nsessions, matched, dropped, credit, readied, pruned_at,
          nraw, npeer, teardown, meter>>

\* Identities the ROUTER socket gives its peers: the callers of
\* send_binary_blob and the raw clients.
Senders == {"s1", "s2"}
RawClients == {"r1", "r2"}
Peers == Senders \cup RawClients
IdOf(p) == <<p>>

BLOB_ID == <<"msg-1">>

\* ------------------------------------------------------- receiver.rs: Blob
\* Blob::get_next_ttl
GetNextTtl(t) == t + BLOB_TTL_SECONDS * 1000

\* Blob::new: a zero-filled array of the announced size, index 0, fresh hash.
BlobNew(id, array_size, t, sid) ==
  [id |-> id, array |-> Replicate(NUL, array_size), index |-> 0,
   hash |-> Sha256New, time_to_die |-> GetNextTtl(t), sid |-> sid]

\* is_alive with <= for <: a blob lives through the instant it should die at.
IsAliveInclusive(blob, t) == t <= blob.time_to_die

\* Blob::is_alive
IsAlive(blob, t) == t < blob.time_to_die

\* Blob::update_ttl
UpdateTtl(blob, t) == [blob EXCEPT !.time_to_die = GetNextTtl(t)]

Remove(bs, key) == [k \in DOMAIN bs \ {key} |-> bs[k]]

Insert(bs, key, blob) == [k \in DOMAIN bs \cup {key} |-> IF k = key THEN blob ELSE bs[k]]

\* prune_dead_blobs without the loop of lines 193-196: nothing is removed.
PruneNothing(bs, t) == bs

\* BlobReceiver::prune_dead_blobs
PruneDeadBlobs(bs, t) == [k \in {j \in DOMAIN bs : IsAlive(bs[j], t)} |-> bs[k]]

\* abort_transaction without the remove of line 338.
AbortKeepsBlob(bs, sender_id) == bs

\* BlobReceiver::abort_transaction
AbortTransaction(bs, sender_id) == Remove(bs, sender_id)

\* ------------------------------------------------- receiver.rs: handlers
\* A handler is a function of the table, the frames waiting on the socket,
\* the clock and its inputs (the on_ready answer; F, the set of the
\* send_multipart calls of this handler, counted from 1, that fail).  Its
\* result says what the handler did: the table it leaves, the messages it
\* sent to sender_id, the frames it read, whether it panicked, and the
\* callbacks and history it adds.
Nothing(bs) ==
  [blobs |-> bs, replies |-> << >>, consumed |-> 2, panic |-> FALSE,
   completed |-> << >>, matched |-> {}, dropped |-> {}, created |-> FALSE,
   granted |-> 0, seen |-> 0, appended |-> 0, on_ready |-> << >>]

\* request_chunks granting one TOKEN more than asked.
RequestChunksOneMore(num, first, F) ==
  IF first \in F THEN << >> ELSE Replicate(<<EMPTY, TOKEN>>, num + 1)

\* BlobReceiver::request_chunks: num TOKENs, stopping at the first send that
\* fails; the sends are number first, first + 1, ...
RECURSIVE RequestChunks(_, _, _)
RequestChunks(num, first, F) ==
  IF num = 0 \/ first \in F THEN << >>
  ELSE << <<EMPTY, TOKEN>> >> \o RequestChunks(num - 1, first + 1, F)

\* BlobReceiver::do_ping
DoPing(bs, frames, F) ==
  [Nothing(bs) EXCEPT !.replies = IF 1 \in F THEN << >> ELSE << <<EMPTY, PONG>> >>]

\* do_start with line 248 ahead of line 240: the credit window is granted
\* before the GOGO.
DoStartTokensFirst(bs, frames, cs, t, sid, admit, F) ==
  LET sender_id == frames[1]
      data_size == bytes_to_int(frames[4])
      old == IF sender_id \in DOMAIN bs THEN {bs[sender_id].sid} ELSE {}
      tokens == RequestChunks(MAX_SIMUL_CHUNKS, 1, F)
      asked == << [id |-> sender_id, size |-> data_size, answer |-> admit] >>
  IN IF data_size = ParseError
     THEN [Nothing(bs) EXCEPT !.blobs = AbortTransaction(bs, sender_id),
                              !.consumed = 4, !.dropped = old]
     ELSE IF ~admit
     THEN [Nothing(bs) EXCEPT !.consumed = 4, !.on_ready = asked,
                              !.replies = << <<EMPTY, NOGO, NOGO_ARG>> >>]
     ELSE [Nothing(bs) EXCEPT
            !.on_ready = asked,
            !.blobs = Insert(bs, sender_id, BlobNew(frames[3], data_size, t, sid)),
            !.consumed = 4,
            !.replies = tokens \o << <<EMPTY, GOGO, int_to_bytes(cs)>> >>,
            !.dropped = old,
            !.created = TRUE,
            !.granted = Len(tokens)]

\* do_start without the return of line 226: after NOGO it goes on to create
\* the blob and to grant the window.
DoStartNoReturn(bs, frames, cs, t, sid, admit, F) ==
  LET sender_id == frames[1]
      data_size == bytes_to_int(frames[4])
      old == IF sender_id \in DOMAIN bs THEN {bs[sender_id].sid} ELSE {}
      nogo == IF admit THEN << >> ELSE << <<EMPTY, NOGO, NOGO_ARG>> >>
  IN IF data_size = ParseError
     THEN [Nothing(bs) EXCEPT !.blobs = AbortTransaction(bs, sender_id),
                              !.consumed = 4, !.dropped = old]
     ELSE [Nothing(bs) EXCEPT
            !.on_ready = << [id |-> sender_id, size |-> data_size, answer |-> admit] >>,
            !.blobs = Insert(bs, sender_id, BlobNew(frames[3], data_size, t, sid)),
            !.consumed = 4,
            !.replies = nogo \o << <<EMPTY, GOGO, int_to_bytes(cs)>> >>
                        \o Replicate(<<EMPTY, TOKEN>>, MAX_SIMUL_CHUNKS),
            !.dropped = old,
            !.created = TRUE,
            !.granted = MAX_SIMUL_CHUNKS]

\* BlobReceiver::do_start
DoStart(bs, frames, cs, t, sid, admit, F) ==
  LET sender_id == frames[1]
      blob_id == frames[3]
      data_size == bytes_to_int(frames[4])
      old == IF sender_id \in DOMAIN bs THEN {bs[sender_id].sid} ELSE {}
      gogo_ok == 1 \notin F
      tokens == RequestChunks(MAX_SIMUL_CHUNKS, 2, F)
      inserted == Insert(bs, sender_id, BlobNew(blob_id, data_size, t, sid))
      asked == << [id |-> sender_id, size |-> data_size, answer |-> admit] >>
  IN IF data_size = ParseError
     THEN [Nothing(bs) EXCEPT !.blobs = AbortTransaction(bs, sender_id),
                              !.consumed = 4, !.dropped = old]
     ELSE IF ~admit
     THEN [Nothing(bs) EXCEPT !.consumed = 4, !.on_ready = asked,
            !.replies = IF gogo_ok THEN << <<EMPTY, NOGO, NOGO_ARG>> >> ELSE << >>]
     ELSE [Nothing(bs) EXCEPT
            !.on_ready = asked,
            !.blobs = IF gogo_ok THEN inserted ELSE AbortTransaction(inserted, sender_id),
            !.consumed = 4,
            !.replies = (IF gogo_ok THEN << <<EMPTY, GOGO, int_to_bytes(cs)>> >> ELSE << >>)
                        \o tokens,
            !.dropped = IF gogo_ok THEN old ELSE old \cup {sid},
            !.created = TRUE,
            !.granted = Len(tokens)]

\* recv_into: the payload copied over buf, cut at the length of buf.
RecvInto(buf, payload) ==
  [i \in 1..Len(buf) |-> IF i <= Len(payload) THEN payload[i] ELSE buf[i]]

\* do_chunk without line 276: the index is never advanced, every chunk is
\* received into the first slice.
BlobAfterChunkNoAdvance(blob, payload, cs, t) ==
  LET chunk_buf == RecvInto(SubSeq(blob.array, 1, cs), payload)
  IN UpdateTtl([blob EXCEPT !.array = chunk_buf \o SubSeq(blob.array, cs + 1, Len(blob.array)),
                            !.hash = Sha256Input(blob.hash, chunk_buf)], t)

\* The Blob after do_chunk's block: the payload received into
\* array[index .. index + chunk_size], that slice fed to the hash, the index
\* advanced and the ttl refreshed.
BlobAfterChunk(blob, payload, cs, t) ==
  LET lo == blob.index + 1
      hi == blob.index + cs
      chunk_buf == RecvInto(SubSeq(blob.array, lo, hi), payload)
      array == SubSeq(blob.array, 1, blob.index) \o chunk_buf
               \o SubSeq(blob.array, hi + 1, Len(blob.array))
  IN UpdateTtl([blob EXCEPT !.array = array,
                            !.hash = Sha256Input(blob.hash, chunk_buf),
                            !.index = blob.index + cs], t)

\* The slice array[index .. index + chunk_size] is in range.
ChunkFits(blob, cs) == blob.index + cs <= Len(blob.array)

\* do_chunk asking a sender without a blob for its next chunk.
DoChunkAnswersUnknown(bs, frames, cs, t, F) ==
  LET sender_id == frames[1]
  IN IF sender_id \notin DOMAIN bs
     THEN [Nothing(bs) EXCEPT !.replies = RequestChunks(1, 1, F)]
     ELSE IF ~ChunkFits(bs[sender_id], cs)
     THEN [Nothing(bs) EXCEPT !.panic = TRUE, !.seen = 1]
     ELSE LET tokens == RequestChunks(1, 1, F)
          IN [Nothing(bs) EXCEPT
               !.blobs = [bs EXCEPT ![sender_id] = BlobAfterChunk(@, frames[3], cs, t)],
               !.consumed = 3,
               !.replies = tokens,
               !.granted = Len(tokens),
               !.seen = 1,
               !.appended = 1]

\* BlobReceiver::do_chunk.  Without a blob it returns before it reads the
\* payload frame; a slice out of range panics, before the payload is read.
DoChunk(bs, frames, cs, t, F) ==
  LET sender_id == frames[1]
  IN IF sender_id \notin DOMAIN bs THEN Nothing(bs)
     ELSE IF ~ChunkFits(bs[sender_id], cs)
     THEN [Nothing(bs) EXCEPT !.panic = TRUE, !.seen = 1]
     ELSE LET tokens == RequestChunks(1, 1, F)
          IN [Nothing(bs) EXCEPT
               !.blobs = [bs EXCEPT ![sender_id] = BlobAfterChunk(@, frames[3], cs, t)],
               !.consumed = 3,
               !.replies = tokens,
               !.granted = Len(tokens),
               !.seen = 1,
               !.appended = 1]

\* Frames do_chunk needs on the socket before it can finish.
ChunkNeeds(bs, frames, cs) ==
  IF frames[1] \in DOMAIN bs /\ ChunkFits(bs[frames[1]], cs) THEN 3 ELSE 2

\* The hash comparison of do_end.
HashMatches(blob, hash_bytes) == hash_bytes = ToHex(ResultBytes(blob.hash))

\* do_end looking the blob up instead of removing it, and without the
\* abort_transaction of line 312: a failed blob stays in the table.
DoEndKeepsFailed(bs, frames, F) ==
  LET sender_id == frames[1]
  IN IF sender_id \notin DOMAIN bs THEN [Nothing(bs) EXCEPT !.consumed = 3]
     ELSE IF ~HashMatches(bs[sender_id], frames[3])
     THEN [Nothing(bs) EXCEPT !.consumed = 3,
            !.replies = << <<EMPTY, FAIL, HASH_MISMATCH>> >>]
     ELSE [Nothing(bs) EXCEPT
            !.blobs = Remove(bs, sender_id),
            !.consumed = 3,
            !.replies = << <<EMPTY, OK, GREAT_SUCCESS>> >>,
            !.matched = {bs[sender_id].sid},
            !.completed = << [id |-> sender_id, array |-> bs[sender_id].array,
                              sid |-> bs[sender_id].sid] >>]

\* do_end calling on_complete ahead of the hash check.
DoEndCompletesFirst(bs, frames, F) ==
  LET sender_id == frames[1]
  IN IF sender_id \notin DOMAIN bs THEN [Nothing(bs) EXCEPT !.consumed = 3]
     ELSE LET blob == bs[sender_id]
              done == << [id |-> sender_id, array |-> blob.array, sid |-> blob.sid] >>
          IN IF ~HashMatches(blob, frames[3])
             THEN [Nothing(bs) EXCEPT
                    !.blobs = Remove(bs, sender_id),
                    !.consumed = 3,
                    !.replies = << <<EMPTY, FAIL, HASH_MISMATCH>> >>,
                    !.dropped = {blob.sid},
                    !.completed = done]
             ELSE [Nothing(bs) EXCEPT
                    !.blobs = Remove(bs, sender_id),
                    !.consumed = 3,
                    !.replies = << <<EMPTY, OK, GREAT_SUCCESS>> >>,
                    !.matched = {blob.sid},
                    !.completed = done]

\* BlobReceiver::do_end
DoEnd(bs, frames, F) ==
  LET sender_id == frames[1]
      hash_bytes == frames[3]
      rest == Remove(bs, sender_id)
  IN IF sender_id \notin DOMAIN bs THEN [Nothing(bs) EXCEPT !.consumed = 3]
     ELSE LET blob == bs[sender_id]
          IN IF ~HashMatches(blob, hash_bytes)
             THEN [Nothing(bs) EXCEPT
                    !.blobs = AbortTransaction(rest, sender_id),
                    !.consumed = 3,
                    !.replies = IF 1 \in F THEN << >>
                                ELSE << <<EMPTY, FAIL, HASH_MISMATCH>> >>,
                    !.dropped = {blob.sid}]
             ELSE [Nothing(bs) EXCEPT
                    !.blobs = rest,
                    !.consumed = 3,
                    !.replies = IF 1 \in F THEN << >>
                                ELSE << <<EMPTY, OK, GREAT_SUCCESS>> >>,
                    !.matched = {blob.sid},
                    !.completed = << [id |-> sender_id, array |-> blob.array,
                                      sid |-> blob.sid] >>]

\* ------------------------------------------------ sender.rs: the transfer
\* The state of one send_binary_blob call.  pc names the recv_multipart the
\* call is blocked in; tokens, chunks, gogo, end_sent and progress are
\* history: the TOKEN messages received, the CHUNKs sent, whether GOGO was
\* received, whether END was sent, and the percentages handed to on_progress.
IdleCall ==
  [pc |-> "idle", data |-> << >>, consistent |-> FALSE, time_to_die |-> 0,
   ping_until |-> 0, chunk_size |-> 0, chunk_index |-> 0, hash |-> Sha256New,
   res |-> "none", ret |-> << >>, tokens |-> 0, chunks |-> 0, gogo |-> FALSE,
   end_sent |-> FALSE, progress |-> << >>]

Returned(c, res, ret) == [c EXCEPT !.pc = "done", !.res = res, !.ret = ret]

\* A chunk loop that ends data with a chunk of what is left over, were it
\* nothing.
NumChunksAndTail(data, cs) == IF data = << >> THEN 0 ELSE Len(data) \div cs + 1

\* data.chunks(chunk_size): the number of chunks and chunk number i (from 0).
NumChunks(data, cs) == (Len(data) + cs - 1) \div cs

ChunkOf(data, cs, i) == SubSeq(data, i * cs + 1, Min((i + 1) * cs, Len(data)))

\* The progress percentage of line 175.
ProgressPercent(chunk_index, cs, chunk_len, data_length) ==
  (100 * (chunk_index * cs + chunk_len)) \div data_length

\* 2^32 is 100 * U32_DIV_100 + U32_MOD_100.  The numbers below stay under
\* 2^31, the range the model checker computes in, so 100 * n is never
\* formed for a large n.
U32_DIV_100 == 42949672
U32_MOD_100 == 96

\* The quotient and the remainder of 100 * a by d, for d up to 2 * 10^8.
Times100Div(a, d) ==
  100 * (a \div d) + 10 * ((10 * (a % d)) \div d) + (10 * ((10 * (a % d)) % d)) \div d

Times100Rem(a, d) == (10 * ((10 * (a % d)) % d)) % d

\* How many times 2^bits goes into 100 * n, for n below 2^31.
Wraps(bits, n) ==
  IF bits = 32
  THEN CHOOSE k \in 0..49 :
         /\ k * U32_DIV_100 + (U32_MOD_100 * k + 99) \div 100 <= n
         /\ (k + 1) * U32_DIV_100 + (U32_MOD_100 * (k + 1) + 99) \div 100 > n
  ELSE 0

\* The expression of line 175 as a build computes it, in usize of the
\* target's width: 100 * (chunk_index * chunk_size + chunk.len()) /
\* data_length.  overflow: the product by 100 left the range of usize; value:
\* the quotient of the wrapped product, (100 * sent - k * 2^bits) /
\* data_length.  The inner product and sum are below 2^31 here.
ProgressUsize(bits, chunk_index, cs, chunk_len, data_length) ==
  LET sent == chunk_index * cs + chunk_len
      k == Wraps(bits, sent)
      rest == sent - k * U32_DIV_100
      q == Times100Div(rest, data_length)
      r == Times100Rem(rest, data_length)
      lost == U32_MOD_100 * k
  IN [overflow |-> k > 0,
      value |-> IF r >= lost THEN q
                ELSE q - ((lost - r + data_length - 1) \div data_length)]

\* The END message of line 181.
EndMsg(hash) == <<END, ToHex(ResultBytes(hash))>>

\* TimedZMQTransaction::new and the PING of line 121.
StartCall(data, timeout, consistent, t) ==
  [snd |-> [IdleCall EXCEPT !.pc = "wait_pong", !.data = data,
                            !.consistent = consistent,
                            !.time_to_die = t + timeout,
                            !.ping_until = t + Min(PING_TIMEOUT_MS, timeout)],
   out |-> << <<PING>> >>]

\* Lines 125-137: the reply to PING, then START.
AfterPong(c, parts) ==
  IF Len(parts) # 2 \/ parts[2] # PONG
  THEN [snd |-> Returned(c, "panic", << >>), out |-> << >>]
  ELSE [snd |-> [c EXCEPT !.pc = "wait_gogo"],
        out |-> << <<START, BLOB_ID, int_to_bytes(Len(c.data))>> >>]

\* Lines 140-157: the reply to START; and, for a blob of no chunks, the END
\* of line 181.
AfterGogo(c, parts) ==
  IF Len(parts) # 3 THEN [snd |-> Returned(c, "panic", << >>), out |-> << >>]
  ELSE IF parts[2] = NOGO THEN [snd |-> Returned(c, "NOGO", << >>), out |-> << >>]
  ELSE IF parts[2] # GOGO \/ bytes_to_int(parts[3]) = ParseError
  THEN [snd |-> Returned(c, "INVALID_RESPONSE", << >>), out |-> << >>]
  ELSE LET cs == bytes_to_int(parts[3])
           ready == [c EXCEPT !.gogo = TRUE, !.chunk_size = cs, !.progress = <<0>>]
       IN IF cs = 0 THEN [snd |-> Returned(ready, "panic", << >>), out |-> << >>]
          ELSE IF NumChunks(c.data, cs) = 0
          THEN [snd |-> [ready EXCEPT !.pc = "wait_ok", !.end_sent = TRUE],
                out |-> <<EndMsg(c.hash)>>]
          ELSE [snd |-> [ready EXCEPT !.pc = "wait_token"], out |-> << >>]

\* Lines 159-181: one turn of the chunk loop; after the last chunk, END.
AfterToken(c, parts) ==
  IF Len(parts) < 2 THEN [snd |-> Returned(c, "panic", << >>), out |-> << >>]
  ELSE IF parts[2] # TOKEN
  THEN [snd |-> Returned(c, "INVALID_RESPONSE", << >>), out |-> << >>]
  ELSE LET chunk == ChunkOf(c.data, c.chunk_size, c.chunk_index)
           hash == Sha256Input(c.hash, chunk)
           sent == [c EXCEPT !.tokens = @ + 1, !.chunks = @ + 1, !.hash = hash,
                             !.chunk_index = @ + 1,
                             !.progress = Append(@, ProgressPercent(c.chunk_index,
                                            c.chunk_size, Len(chunk), Len(c.data)))]
       IN IF c.chunk_index + 1 = NumChunks(c.data, c.chunk_size)
          THEN [snd |-> [sent EXCEPT !.pc = "wait_ok", !.end_sent = TRUE],
                out |-> << <<CHUNK, chunk>>, EndMsg(hash) >>]
          ELSE [snd |-> sent, out |-> << <<CHUNK, chunk>> >>]

\* The loop that waits for OK without the TOKEN arm of line 190.
AfterEndNoTokenArm(c, parts) ==
  IF Len(parts) < 2 THEN [snd |-> Returned(c, "panic", << >>), out |-> << >>]
  ELSE IF parts[2] # OK
  THEN [snd |-> Returned(c, "INVALID_RESPONSE", << >>), out |-> << >>]
  ELSE IF c.consistent THEN [snd |-> [c EXCEPT !.pc = "wait_cons"], out |-> << >>]
  ELSE [snd |-> Returned(c, "Ok", << >>), out |-> << >>]

\* Lines 184-212: one turn of the loop that waits for OK.
AfterEnd(c, parts) ==
  IF Len(parts) < 2 THEN [snd |-> Returned(c, "panic", << >>), out |-> << >>]
  ELSE IF parts[2] = TOKEN THEN [snd |-> [c EXCEPT !.tokens = @ + 1], out |-> << >>]
  ELSE IF parts[2] # OK
  THEN [snd |-> Returned(c, "INVALID_RESPONSE", << >>), out |-> << >>]
  ELSE IF c.consistent THEN [snd |-> [c EXCEPT !.pc = "wait_cons"], out |-> << >>]
  ELSE [snd |-> Returned(c, "Ok", << >>), out |-> << >>]

\* Lines 203-208: the CONS reply of consistent mode.
AfterCons(c, parts) ==
  IF Len(parts) # 3 \/ parts[2] # CONS
  THEN [snd |-> Returned(c, "panic", << >>), out |-> << >>]
  ELSE [snd |-> Returned(c, "Ok", parts[3]), out |-> << >>]

\* get_remaining_ms without the check of line 102: past the deadline the
\* remaining time goes negative, which poll takes as no timeout at all.
RemainingMsUnchecked(c, t) ==
  (IF c.pc = "wait_pong" THEN c.ping_until ELSE c.time_to_die) - t

\* TimedZMQTransaction::get_remaining_ms, for the recv_multipart the call is
\* blocked in: the PING reply is awaited for at most PING_TIMEOUT_MS.
RemainingMs(c, t) ==
  LET until == IF c.pc = "wait_pong" THEN c.ping_until ELSE c.time_to_die
  IN IF until <= t THEN 0 ELSE until - t

\* ------------------------------------------- sender.rs, receiver.rs: Drop
\* What zmq_ctx_destroy can answer: interrupted, destroyed, or an error.
DestroyResults == {"EINTR", "Ok", "EFAULT"}

\* The destroy calls of lines 28-31 (114-117), given the answers the
\* context would give to successive calls: one call, and one more after
\* every EINTR.
RECURSIVE DestroyLoop(_)
DestroyLoop(answers) ==
  IF answers = << >> THEN << >>
  ELSE << [call |-> "destroy", result |-> Head(answers)] >>
       \o (IF Head(answers) = "EINTR" THEN DestroyLoop(Tail(answers)) ELSE << >>)

\* drop destroying the context once, whatever the answer.
DropCallsNoRetry(closed, answers) ==
  << [call |-> "close", result |-> closed] >>
  \o (IF closed = "Ok" THEN << [call |-> "destroy", result |-> Head(answers)] >>
      ELSE << >>)

\* Drop::drop of TimedZMQTransaction and of BlobReceiver: close the socket,
\* panic if that fails, then destroy the context.
DropCalls(closed, answers) ==
  << [call |-> "close", result |-> closed] >>
  \o (IF closed = "Ok" THEN DestroyLoop(answers) ELSE << >>)

\* ----------------------------------------------------------------- actions
Owners == Senders \cup {"receiver"}

NoMeter == [running |-> FALSE]

\* The answers of a context that is interrupted fewer than MaxDestroys times.
Answers ==
  {a \in SeqsUpTo(DestroyResults, MaxDestroys) : a # << >> /\ a[Len(a)] # "EINTR"}

NoBlobs == [k \in {} |-> 0]

Timeouts == {2000, 20000}          \* the timeouts of tests/lib.rs
Blobs == SeqsUpTo(DataBytes, MaxLen)
ChunkSizes == 1..MaxChunk

Init ==
  /\ now = 0
  /\ chunk_size \in ChunkSizes
  /\ blobs = NoBlobs
  /\ rstate = "running"
  /\ stop_chan = 0
  /\ wire = << >>
  /\ outbox = [p \in Peers |-> << >>]
  /\ snd = [s \in Senders |-> IdleCall]
  /\ completed = << >>
  /\ nsessions = 0
  /\ matched = {}
  /\ dropped = {}
  /\ credit = NoBlobs
  /\ readied = << >>
  /\ pruned_at = 0
  /\ nraw = 0
  /\ npeer = 0
  /\ teardown = [o \in Owners |-> << >>]
  /\ meter = NoMeter

\* A DEALER sends: each message reaches the ROUTER whole, behind the
\* identity frame of its peer.
OnWire(p, msgs) == Flatten([i \in 1..Len(msgs) |-> <<IdOf(p)>> \o msgs[i]])

\* A ROUTER sends: a message to an identity that is no peer is dropped.
Deliver(box, sender_id, replies) ==
  [p \in Peers |-> IF IdOf(p) = sender_id THEN box[p] \o replies ELSE box[p]]

Sids(bs) == {bs[k].sid : k \in DOMAIN bs}

\* The history of the credit window: a new session starts with what START
\* granted; a CHUNK appended adds what it was granted.
CreditAfter(cr, sender_id, eff) ==
  IF eff.created
  THEN Insert(cr, sender_id, [granted |-> eff.granted, seen |-> 0, received |-> 0])
  ELSE IF sender_id \in DOMAIN cr
  THEN [cr EXCEPT ![sender_id] = [granted |-> @.granted + eff.granted,
                                  seen |-> @.seen + eff.seen,
                                  received |-> @.received + eff.appended]]
  ELSE cr

\* The rest of a loop iteration of BlobReceiver::run after a handler, and
\* the top of the next one: a panic ends the thread and frees the table; a
\* value in the stop channel ends the loop; otherwise the loop prunes and
\* polls again.
Iterate(eff) ==
  /\ wire' = Drop(wire, eff.consumed)
  /\ outbox' = Deliver(outbox, wire[1], eff.replies)
  /\ completed' = completed \o eff.completed
  /\ matched' = matched \cup eff.matched
  /\ nsessions' = IF eff.created THEN nsessions + 1 ELSE nsessions
  /\ credit' = CreditAfter(credit, wire[1], eff)
  /\ readied' = readied \o eff.on_ready
  /\ IF eff.panic
     THEN /\ rstate' = "panicked"
          /\ blobs' = NoBlobs
          /\ dropped' = dropped \cup eff.dropped \cup Sids(eff.blobs)
          /\ UNCHANGED <<stop_chan, pruned_at>>
     ELSE IF stop_chan > 0
     THEN /\ rstate' = "stopped"
          /\ stop_chan' = stop_chan - 1
          /\ blobs' = eff.blobs
          /\ dropped' = dropped \cup eff.dropped
          /\ UNCHANGED pruned_at
     ELSE /\ blobs' = PruneDeadBlobs(eff.blobs, now)
          /\ dropped' = dropped \cup eff.dropped
                        \cup (Sids(eff.blobs) \ Sids(PruneDeadBlobs(eff.blobs, now)))
          /\ pruned_at' = now
          /\ UNCHANGED <<rstate, stop_chan>>
  /\ UNCHANGED <<now, chunk_size, snd, nraw, npeer, teardown, meter>>

Verbs == {PING, START, CHUNK, END}

\* run: poll found nothing to read; the loop prunes and polls again.
RunIdle ==
  /\ rstate = "running"
  /\ wire = << >>
  /\ blobs' = PruneDeadBlobs(blobs, now)
  /\ dropped' = dropped \cup (Sids(blobs) \ Sids(PruneDeadBlobs(blobs, now)))
  /\ pruned_at' = now
  /\ UNCHANGED <<now, chunk_size, rstate, stop_chan, wire, outbox, snd, completed,
                 nsessions, matched, credit, readied, nraw, npeer, teardown, meter>>

\* run: the two frames read are a sender_id and the verb PING.
RecvPing(F) ==
  /\ rstate = "running"
  /\ Len(wire) >= 2 /\ wire[2] = PING
  /\ Iterate(DoPing(blobs, wire, F))

RecvStart(admit, F) ==
  /\ rstate = "running"
  /\ Len(wire) >= 4 /\ wire[2] = START
  /\ Iterate(DoStart(blobs, wire, chunk_size, now, nsessions + 1, admit, F))

RecvChunk(F) ==
  /\ rstate = "running"
  /\ Len(wire) >= 2 /\ wire[2] = CHUNK
  /\ Len(wire) >= ChunkNeeds(blobs, wire, chunk_size)
  /\ Iterate(DoChunk(blobs, wire, chunk_size, now, F))

RecvEnd(F) ==
  /\ rstate = "running"
  /\ Len(wire) >= 3 /\ wire[2] = END
  /\ Iterate(DoEnd(blobs, wire, F))

\* run: any other second frame is logged; nothing more is read.
RecvInvalid ==
  /\ rstate = "running"
  /\ Len(wire) >= 2 /\ wire[2] \notin Verbs
  /\ Iterate(Nothing(blobs))

\* The host sends STOP on the stop channel.
HostStop ==
  /\ stop_chan = 0 /\ rstate = "running"
  /\ stop_chan' = 1
  /\ UNCHANGED <<now, chunk_size, blobs, rstate, wire, outbox, snd, completed,
                 nsessions, matched, dropped, credit, readied, pruned_at, nraw, npeer, teardown, meter>>

Tick ==
  /\ now < MaxTime
  /\ now' = now + TickStep
  /\ UNCHANGED <<chunk_size, blobs, rstate, stop_chan, wire, outbox, snd, completed,
                 nsessions, matched, dropped, credit, readied, pruned_at, nraw, npeer, teardown, meter>>

\* What a step of a send_binary_blob call does to the rest of the state.
SenderDoes(s, r, read) ==
  /\ snd' = [snd EXCEPT ![s] = r.snd]
  /\ wire' = wire \o OnWire(s, r.out)
  /\ outbox' = [outbox EXCEPT ![s] = Drop(@, read)]
  /\ UNCHANGED <<now, chunk_size, blobs, rstate, stop_chan, completed, nsessions,
                 matched, dropped, credit, readied, pruned_at, nraw, npeer, teardown, meter>>

Call(s, data, timeout, consistent) ==
  /\ snd[s].pc = "idle"
  /\ SenderDoes(s, StartCall(data, timeout, consistent, now), 0)

\* recv_multipart returns the next message whenever one is waiting, the
\* deadline passed or not: poll is then called with 0 ms and finds it.
RecvPong(s) ==
  /\ snd[s].pc = "wait_pong" /\ outbox[s] # << >>
  /\ SenderDoes(s, AfterPong(snd[s], Head(outbox[s])), 1)

RecvGogo(s) ==
  /\ snd[s].pc = "wait_gogo" /\ outbox[s] # << >>
  /\ SenderDoes(s, AfterGogo(snd[s], Head(outbox[s])), 1)

RecvToken(s) ==
  /\ snd[s].pc = "wait_token" /\ outbox[s] # << >>
  /\ SenderDoes(s, AfterToken(snd[s], Head(outbox[s])), 1)

RecvOk(s) ==
  /\ snd[s].pc = "wait_ok" /\ outbox[s] # << >>
  /\ SenderDoes(s, AfterEnd(snd[s], Head(outbox[s])), 1)

RecvCons(s) ==
  /\ snd[s].pc = "wait_cons" /\ outbox[s] # << >>
  /\ SenderDoes(s, AfterCons(snd[s], Head(outbox[s])), 1)

\* recv_multipart: poll returns 0 once the remaining time is used up and no
\* message is waiting; the call returns the transport error EBUSY.
RecvTimeout(s) ==
  /\ snd[s].pc \in {"wait_pong", "wait_gogo", "wait_token", "wait_ok", "wait_cons"}
  /\ outbox[s] = << >>
  /\ RemainingMs(snd[s], now) = 0
  /\ SenderDoes(s, [snd |-> Returned(snd[s], "ZMQ_ERROR", << >>), out |-> << >>], 0)

\* A raw client: a peer that sends protocol messages of its own making.
JUNK == <<"J", "U", "N", "K">>
BAD_HASH == <<"b", "a", "d">>
BAD_SIZE == <<"x">>

RawMsgs(p) ==
  {<<PING>>, <<JUNK>>, <<START, BLOB_ID, BAD_SIZE>>, <<END, BAD_HASH>>}
  \cup {<<START, BLOB_ID, int_to_bytes(n)>> : n \in 0..MaxLen}
  \cup {<<CHUNK, Replicate("*", n)>> : n \in 0..(MaxChunk + 1)}
  \cup {<<END, ToHex(ResultBytes(IF IdOf(p) \in DOMAIN blobs
                                  THEN blobs[IdOf(p)].hash ELSE Sha256New))>>}

RawSend(p, msg, limit) ==
  /\ nraw < limit
  /\ Len(wire) < 2
  /\ wire' = wire \o OnWire(p, <<msg>>)
  /\ nraw' = nraw + 1
  /\ UNCHANGED <<now, chunk_size, blobs, rstate, stop_chan, outbox, snd, completed,
                 nsessions, matched, dropped, credit, readied, pruned_at, npeer, teardown, meter>>

NoFail == {}

\* The receiver loop with every send_multipart succeeding.
Receiver ==
  \/ RunIdle
  \/ RecvPing(NoFail)
  \/ \E admit \in BOOLEAN : RecvStart(admit, NoFail)
  \/ RecvChunk(NoFail)
  \/ RecvEnd(NoFail)
  \/ RecvInvalid

\* A send_binary_blob call against this receiver, which never sends CONS.
Sender(s) ==
  \/ \E data \in Blobs, timeout \in Timeouts, consistent \in BOOLEAN :
       Call(s, data, timeout, consistent)
  \/ RecvPong(s)
  \/ RecvGogo(s)
  \/ RecvToken(s)
  \/ RecvOk(s)
  \/ RecvTimeout(s)

\* A CHUNK from a peer that never sent START.
STRAY_CHUNK == <<CHUNK, <<"*">> >>

\* One caller, a raw client that sends one stray CHUNK, the receiver and the
\* clock.
Next ==
  \/ Receiver
  \/ Sender("s1")
  \/ RawSend("r1", STRAY_CHUNK, 1)
  \/ Tick

Spec == Init /\ [][Next]_vars

\* A raw client, the receiver and the clock.
NextRaw ==
  \/ Receiver
  \/ \E msg \in RawMsgs("r1") : RawSend("r1", msg, MaxRawMsgs)
  \/ Tick

SpecRaw == Init /\ [][NextRaw]_vars

\* A send_binary_blob call whose peer answers with messages of its own
\* making, well-formed or not.
PeerMsgs ==
  {<<EMPTY, PONG>>, <<EMPTY, NOGO, NOGO_ARG>>, <<EMPTY, GOGO, BAD_SIZE>>,
   <<EMPTY, TOKEN>>, <<EMPTY, OK, GREAT_SUCCESS>>, <<EMPTY, FAIL, HASH_MISMATCH>>,
   <<EMPTY, CONS, <<"r">> >>, <<EMPTY>>, <<EMPTY, PONG, PONG>>, <<EMPTY, JUNK>>}
  \cup {<<EMPTY, GOGO, int_to_bytes(n)>> : n \in 0..MaxChunk}

PeerReply(s, msg) ==
  /\ npeer < MaxPeerMsgs
  /\ snd[s].pc \notin {"idle", "done"}
  /\ outbox[s] = << >>
  /\ outbox' = [outbox EXCEPT ![s] = Append(@, msg)]
  /\ npeer' = npeer + 1
  /\ UNCHANGED <<now, chunk_size, blobs, rstate, stop_chan, wire, snd, completed,
                 nsessions, matched, dropped, credit, readied, pruned_at, nraw,
                 teardown, meter>>

NextPeer ==
  \/ Sender("s1")
  \/ RecvCons("s1")
  \/ \E msg \in PeerMsgs : PeerReply("s1", msg)
  \/ Tick

SpecPeer == Init /\ [][NextPeer]_vars

\* A transfer in which nothing expires and on_ready admits: the clock stays
\* below the first time_to_die, and no recv_multipart times out.
TickEarly ==
  /\ now + TickStep < GetNextTtl(0)
  /\ Tick

ReceiverAdmits ==
  \/ RunIdle
  \/ RecvPing(NoFail)
  \/ RecvStart(TRUE, NoFail)
  \/ RecvChunk(NoFail)
  \/ RecvEnd(NoFail)

SenderInTime(s) ==
  \/ \E data \in Blobs, timeout \in Timeouts, consistent \in BOOLEAN :
       Call(s, data, timeout, consistent)
  \/ RecvPong(s)
  \/ RecvGogo(s)
  \/ RecvToken(s)
  \/ RecvOk(s)

NextLive ==
  \/ ReceiverAdmits
  \/ SenderInTime("s1")
  \/ TickEarly

\* The receiver thread and the calling thread both run whenever they can.
SpecLive ==
  Init /\ [][NextLive]_vars /\ WF_vars(ReceiverAdmits) /\ WF_vars(SenderInTime("s1"))

\* ------------------------------------------------------------------ claims
DeliveredTo(s, data) ==
  \E i \in 1..Len(completed) : completed[i].id = IdOf(s) /\ completed[i].array = data

\* C1: a send_binary_blob call that returned Ok had its blob handed to
\* on_complete under its sender_id, byte for byte.
ByteExact ==
  \A s \in Senders : snd[s].res = "Ok" => DeliveredTo(s, snd[s].data)

\* A blob of two different bytes, sent in two chunks, was confirmed with OK.
ByteExactWitness ==
  /\ snd["s1"].res = "Ok"
  /\ snd["s1"].chunks = 2
  /\ snd["s1"].data[1] # snd["s1"].data[2]

\* C2: for a blob whose length is no multiple of the chunk size the sender
\* sends ceil(len / chunk_size) CHUNKs, the receiver appends every CHUNK it
\* dispatches to the blob, and a call that ended with OK had the blob
\* delivered.
ShortFinalChunk ==
  \A s \in Senders :
    LET c == snd[s]
    IN (c.gogo /\ c.chunk_size = chunk_size /\ Len(c.data) % c.chunk_size # 0) =>
         /\ c.chunks <= (Len(c.data) \div c.chunk_size) + 1
         /\ c.end_sent => c.chunks = (Len(c.data) \div c.chunk_size) + 1
         /\ IdOf(s) \in DOMAIN credit =>
              credit[IdOf(s)].received = credit[IdOf(s)].seen
         /\ c.res = "Ok" => DeliveredTo(s, c.data)

CreditBound ==
  \A id \in DOMAIN credit :
    credit[id].granted - credit[id].received <= MAX_SIMUL_CHUNKS

\* A session that appended CHUNKs and has the full window outstanding.
CreditBoundWitness ==
  \E id \in DOMAIN credit :
    /\ credit[id].received >= 2
    /\ credit[id].granted - credit[id].received = MAX_SIMUL_CHUNKS

\* The step is a loop iteration of the receiver that dispatched verb.
Handles(verb) ==
  /\ rstate = "running"
  /\ Len(wire) >= 2 /\ wire[2] = verb
  /\ Len(wire') < Len(wire)

\* The step is a step of the call of s that read a message.
Reads(s, pc) ==
  /\ snd[s].pc = pc
  /\ outbox[s] # << >>
  /\ snd'[s] # snd[s]

IsTokenMsg(parts) == Len(parts) >= 2 /\ parts[2] = TOKEN

\* C5: a call has sent at most as many CHUNKs as it has received TOKENs, and
\* none before GOGO; a call that reads anything but a TOKEN where it expects
\* one returns INVALID_RESPONSE and sends nothing.
TokenDiscipline ==
  /\ [](\A s \in Senders : /\ snd[s].chunks <= snd[s].tokens
                           /\ snd[s].chunks > 0 => snd[s].gogo)
  /\ [][\A s \in Senders :
          (Reads(s, "wait_token") /\ ~IsTokenMsg(Head(outbox[s]))) =>
            (snd'[s].res = "INVALID_RESPONSE" /\ wire' = wire)]_vars

\* The replies a step added for the peer with this identity.
Emitted(sender_id, replies) ==
  \A p \in Peers :
    outbox'[p] = IF IdOf(p) = sender_id THEN outbox[p] \o replies ELSE outbox[p]

MismatchedEnd ==
  /\ Handles(END)
  /\ Len(wire) >= 3
  /\ wire[1] \in DOMAIN blobs
  /\ wire[3] # ToHex(blobs[wire[1]].hash)

\* C6: an END whose hash differs from the hex of the blob's rolling hash is
\* answered with FAIL "Hash mismatch", the blob leaves the table and is never
\* handed to on_complete; the call that reads the FAIL returns
\* INVALID_RESPONSE.
HashMismatchFails ==
  /\ [](\A i \in 1..Len(completed) : completed[i].sid \notin dropped)
  /\ [][MismatchedEnd =>
          /\ Emitted(wire[1], << <<EMPTY, FAIL, HASH_MISMATCH>> >>)
          /\ wire[1] \notin DOMAIN blobs'
          /\ blobs[wire[1]].sid \in dropped'
          /\ completed' = completed]_vars
  /\ [][\A s \in Senders :
          (Reads(s, "wait_ok") /\ Len(Head(outbox[s])) >= 2 /\ Head(outbox[s])[2] = FAIL)
            => snd'[s].res = "INVALID_RESPONSE"]_vars

\* The blob of a call failed the hash check and the call returned
\* INVALID_RESPONSE.
HashMismatchWitness ==
  /\ snd["s1"].res = "INVALID_RESPONSE"
  /\ snd["s1"].end_sent
  /\ dropped # {}
  /\ completed = << >>


\* C7: every blob whose END matched was handed to on_complete exactly once,
\* every OK sent to a peer goes with one on_complete for its sender_id, and
\* on_complete is called for no other blob: none that is still in the table,
\* none that was pruned, replaced, aborted or failed.
CompleteExactlyOnce ==
  /\ \A sid \in matched :
       Cardinality({i \in 1..Len(completed) : completed[i].sid = sid}) = 1
  /\ \A i \in 1..Len(completed) :
       /\ completed[i].sid \in matched
       /\ completed[i].sid \notin dropped
       /\ completed[i].sid \notin Sids(blobs)
  /\ \A p \in RawClients :
       Cardinality({i \in 1..Len(outbox[p]) : outbox[p][i][2] = OK})
         = Cardinality({i \in 1..Len(completed) : completed[i].id = IdOf(p)})

\* One blob was replaced by a second START, whose blob was then completed.
CompleteExactlyOnceWitness ==
  /\ Len(completed) = 1
  /\ dropped # {}
  /\ nsessions = 2

Declined ==
  /\ Len(readied') = Len(readied) + 1
  /\ ~readied'[Len(readied')].answer

\* C8: when on_ready returns false the receiver sends NOGO "0", inserts no
\* blob and grants no TOKEN; the call that reads the NOGO returns the NOGO
\* error, and a call that returned it has sent no CHUNK and no END.
DeclinedStart ==
  /\ [](\A s \in Senders :
          snd[s].res = "NOGO" => (snd[s].chunks = 0 /\ ~snd[s].end_sent))
  /\ [][Declined =>
          /\ Emitted(wire[1], << <<EMPTY, NOGO, NOGO_ARG>> >>)
          /\ \A k \in DOMAIN blobs' : k \in DOMAIN blobs /\ blobs'[k] = blobs[k]
          /\ nsessions' = nsessions
          /\ credit' = credit]_vars
  /\ [][\A s \in Senders :
          (Reads(s, "wait_gogo") /\ Head(outbox[s]) = <<EMPTY, NOGO, NOGO_ARG>>)
            => (snd'[s].res = "NOGO" /\ wire' = wire)]_vars

\* on_ready declined the START of a call, which returned NOGO.
DeclinedStartWitness ==
  /\ snd["s1"].res = "NOGO"
  /\ Len(readied) = 1
  /\ DOMAIN blobs = {}

\* C9, as claimed: whenever the receiver handles a CHUNK or an END, the table
\* holds no blob whose time_to_die is at or before the current time.
ExpiredAbsentWhenHandled ==
  [][(Handles(CHUNK) \/ Handles(END)) =>
       \A k \in DOMAIN blobs : now < blobs[k].time_to_die]_vars

\* C9, amended: while the loop runs, the table holds no blob whose
\* time_to_die is at or before the time of the last prune; a session that
\* expired before that prune is unknown to the CHUNK and END handlers.
ExpiredAbsentAtPrune ==
  rstate = "running" => \A k \in DOMAIN blobs : pruned_at < blobs[k].time_to_die

\* A session was pruned at the instant of its time_to_die, and the CHUNK
\* that came after it was handled as one of an unknown sender: its payload
\* frame is still on the socket.
ExpiredAbsentWitness ==
  /\ rstate = "running"
  /\ nsessions = 1
  /\ dropped = {1}
  /\ pruned_at = GetNextTtl(0)
  /\ Len(wire) = 1
  /\ completed = << >>

\* A raw client, the receiver, and a clock that goes on for as long as a
\* blob in the table has its time_to_die ahead.
TickOn ==
  /\ now < MaxTime \/ \E k \in DOMAIN blobs : now < blobs[k].time_to_die
  /\ now' = now + TickStep
  /\ UNCHANGED <<chunk_size, blobs, rstate, stop_chan, wire, outbox, snd, completed,
                 nsessions, matched, dropped, credit, readied, pruned_at, nraw, npeer, teardown, meter>>

NextRawLive ==
  \/ Receiver
  \/ \E msg \in RawMsgs("r1") : RawSend("r1", msg, MaxRawMsgs)
  \/ TickOn

\* The receiver loop keeps running and time keeps passing.
SpecRawLive ==
  Init /\ [][NextRawLive]_vars /\ WF_vars(Receiver) /\ WF_vars(TickOn)

\* The raw client has a blob in the table, has sent its last message, and
\* the receiver has read all it sent.
Silent(p) ==
  /\ IdOf(p) \in DOMAIN blobs
  /\ nraw = MaxRawMsgs
  /\ wire = << >>

\* C10: the session of a sender that went silent after START and some CHUNKs
\* eventually leaves the table, and on_complete is never called for it.
SilentSessionReaped ==
  /\ Silent("r1") ~> (IdOf("r1") \notin DOMAIN blobs)
  /\ [][Silent("r1") => completed' = completed]_vars
  /\ [](\A i \in 1..Len(completed) : completed[i].sid \notin dropped)

\* A session that appended a CHUNK and then heard nothing more was pruned.
SilentSessionWitness ==
  /\ nraw = MaxRawMsgs
  /\ wire = << >>
  /\ rstate = "running"
  /\ \E id \in DOMAIN credit : credit[id].received >= 1 /\ id \notin DOMAIN blobs
  /\ nsessions = 1
  /\ dropped = {1}
  /\ completed = << >>

\* A raw client, the receiver, the clock, and the host, which sends STOP
\* once.
NextStop ==
  \/ Receiver
  \/ \E msg \in RawMsgs("r1") : RawSend("r1", msg, MaxRawMsgs)
  \/ HostStop
  \/ Tick

\* The receiver thread runs whenever it can.
SpecStop == Init /\ [][NextStop]_vars /\ WF_vars(Receiver)

\* C11: once the host has sent a stop value, BlobReceiver::run eventually
\* returns, also when no message arrives after it.
StopHonoured == (stop_chan > 0) ~> (rstate # "running")

\* The latest session of this sender_id was finalized with OK.
Finalized(sender_id) ==
  /\ sender_id \notin DOMAIN blobs
  /\ sender_id \in DOMAIN credit
  /\ \E i \in 1..Len(completed) : completed[i].id = sender_id

\* C12: a CHUNK or an END from a sender_id whose session was finalized with
\* OK leaves the table without an entry for it, is answered with nothing and
\* calls no on_complete; only a START puts the sender_id back into the table.
NoResurrection ==
  /\ [][\A p \in RawClients :
          (Finalized(IdOf(p)) /\ wire # << >> /\ wire[1] = IdOf(p)
             /\ (Handles(CHUNK) \/ Handles(END)))
            => /\ IdOf(p) \notin DOMAIN blobs'
               /\ outbox' = outbox
               /\ completed' = completed
               /\ credit' = credit]_vars
  /\ [][\A p \in RawClients :
          (IdOf(p) \notin DOMAIN blobs /\ IdOf(p) \in DOMAIN blobs')
            => (Handles(START) /\ wire[1] = IdOf(p))]_vars

\* A session of no bytes was finalized, and a CHUNK that came after it was
\* handled: the CHUNK's payload frame is what is left on the socket.
NoResurrectionWitness ==
  /\ Len(completed) = 1
  /\ nsessions = 1
  /\ nraw = 3
  /\ Len(wire) = 1
  /\ DOMAIN blobs = {}
  /\ Len(outbox["r1"]) = MAX_SIMUL_CHUNKS + 2

\* The timeout of recv_big_vec.
LONG_TIMEOUT == 20000

\* Each caller sends blobs of a byte of its own, so that a byte in a buffer
\* tells whose chunk it came with.
OwnBlobs(s) == SeqsUpTo({IF s = "s1" THEN "*" ELSE "e"}, MaxLen)

\* A call in non-consistent mode whose deadline is far off.
SenderPlain(s) ==
  \/ \E data \in OwnBlobs(s) : Call(s, data, LONG_TIMEOUT, FALSE)
  \/ RecvPong(s)
  \/ RecvGogo(s)
  \/ RecvToken(s)
  \/ RecvOk(s)

\* Two callers with their own sender_ids and a receiver that admits.
NextTwo ==
  \/ ReceiverAdmits
  \/ SenderPlain("s1")
  \/ SenderPlain("s2")

\* The receiver thread and both calling threads run whenever they can.
SpecTwo ==
  /\ Init /\ [][NextTwo]_vars
  /\ WF_vars(ReceiverAdmits)
  /\ WF_vars(SenderPlain("s1"))
  /\ WF_vars(SenderPlain("s2"))

CompletedFor(s) == {i \in 1..Len(completed) : completed[i].id = IdOf(s)}

\* The buffer and the hash of the blob of s hold only bytes of the data of s:
\* the chunks received so far.
OwnBytesOnly(s) ==
  IdOf(s) \in DOMAIN blobs =>
    LET blob == blobs[IdOf(s)]
    IN /\ blob.index <= Len(snd[s].data)
       /\ SubSeq(blob.array, 1, blob.index) = SubSeq(snd[s].data, 1, blob.index)
       /\ blob.hash = SubSeq(snd[s].data, 1, blob.index)

\* C13: with two senders transferring concurrently, on_complete fires once
\* for each sender, with that sender's payload, and no blob holds a byte of
\* the other sender's chunks.
ConcurrentTransfers ==
  /\ [](\A s \in Senders :
          /\ Cardinality(CompletedFor(s)) <= 1
          /\ \A i \in CompletedFor(s) : completed[i].array = snd[s].data
          /\ OwnBytesOnly(s))
  /\ (\A s \in Senders : snd[s].pc # "idle")
       ~> (\A s \in Senders : Cardinality(CompletedFor(s)) = 1)

Waiting == {"wait_pong", "wait_gogo", "wait_token", "wait_ok", "wait_cons"}

\* C14: once the deadline of a call has passed, its next recv_multipart or
\* send_multipart fails: the call returns the transport error and sends
\* nothing more.
DeadlineGuards ==
  [][\A s \in Senders :
       (snd[s].pc \in Waiting /\ snd[s].time_to_die <= now /\ snd'[s] # snd[s])
         => /\ snd'[s].pc = "done"
            /\ snd'[s].res = "ZMQ_ERROR"
            /\ wire' = wire]_vars

\* C15: a reply to PING that is not [<empty>, PONG], or a reply to START that
\* has not three parts, makes the call return INVALID_RESPONSE; no call ends
\* in another way than by returning a value.
ShapeMismatchReturned ==
  /\ [](\A s \in Senders : snd[s].res # "panic")
  /\ [][\A s \in Senders :
          (Reads(s, "wait_pong")
             /\ ~(Len(Head(outbox[s])) = 2 /\ Head(outbox[s])[2] = PONG))
            => snd'[s].res = "INVALID_RESPONSE"]_vars
  /\ [][\A s \in Senders :
          (Reads(s, "wait_gogo") /\ Len(Head(outbox[s])) # 3)
            => snd'[s].res = "INVALID_RESPONSE"]_vars

\* send_binary_blob has returned or panicked: its TimedZMQTransaction goes
\* out of scope and is dropped.
DropTransaction(s, closed, answers) ==
  /\ snd[s].pc = "done"
  /\ teardown[s] = << >>
  /\ teardown' = [teardown EXCEPT ![s] = DropCalls(closed, answers)]
  /\ UNCHANGED <<now, chunk_size, blobs, rstate, stop_chan, wire, outbox, snd,
                 completed, nsessions, matched, dropped, credit, readied,
                 pruned_at, nraw, npeer, meter>>

\* run has returned or panicked: the BlobReceiver goes out of scope and is
\* dropped.
DropReceiver(closed, answers) ==
  /\ rstate \in {"stopped", "panicked"}
  /\ teardown["receiver"] = << >>
  /\ teardown' = [teardown EXCEPT !["receiver"] = DropCalls(closed, answers)]
  /\ UNCHANGED <<now, chunk_size, blobs, rstate, stop_chan, wire, outbox, snd,
                 completed, nsessions, matched, dropped, credit, readied,
                 pruned_at, nraw, npeer, meter>>

\* The messages of a raw client that take the receiver to a panic (a START
\* of one byte and a CHUNK, with chunk_size 2) or past its stop check.
FewRawMsgs == {<<PING>>, STRAY_CHUNK, <<START, BLOB_ID, int_to_bytes(1)>>}

\* Either a receiver with a raw client and a host that stops it, or a call
\* with a peer of its own making; then the drop of what went out of scope.
ReceiverSide ==
  /\ snd["s1"].pc = "idle"
  /\ \/ Receiver
     \/ \E msg \in FewRawMsgs : RawSend("r1", msg, MaxRawMsgs)
     \/ HostStop
     \/ \E closed \in {"Ok", "Err"}, answers \in Answers : DropReceiver(closed, answers)

SenderSide ==
  /\ nraw = 0 /\ stop_chan = 0 /\ rstate = "running"
  /\ \/ NextPeer
     \/ \E closed \in {"Ok", "Err"}, answers \in Answers :
          DropTransaction("s1", closed, answers)

NextDrop == ReceiverSide \/ SenderSide

SpecDrop == Init /\ [][NextDrop]_vars

\* The calls of one drop are in order: one close, first; the destroys after
\* it, and only when it succeeded; a further destroy after every EINTR and
\* after nothing else.
InOrder(log) ==
  log # << >> =>
    /\ log[1].call = "close"
    /\ \A i \in 2..Len(log) : log[i].call = "destroy"
    /\ Len(log) >= 2 <=> log[1].result = "Ok"
    /\ \A i \in 2..(Len(log) - 1) : log[i].result = "EINTR"
    /\ Len(log) >= 2 => log[Len(log)].result # "EINTR"

\* C16: whatever way send_binary_blob or run ended, the drop that follows
\* closes the socket once and then destroys the context, again after every
\* EINTR and never after a destroy that succeeded; nothing is dropped
\* before the call ended or a second time.
TeardownOrdered ==
  /\ [](\A o \in Owners : InOrder(teardown[o]))
  /\ [](\A s \in Senders : teardown[s] # << >> => snd[s].pc = "done")
  /\ [](teardown["receiver"] # << >> => rstate # "running")
  /\ [][\A o \in Owners : teardown[o] # << >> => teardown'[o] = teardown[o]]_vars

\* A call that returned NOGO was dropped: the socket closed, the context
\* destroyed at the second attempt.
TeardownWitness ==
  /\ snd["s1"].res = "NOGO"
  /\ Len(teardown["s1"]) = 3
  /\ teardown["s1"][2].result = "EINTR"
  /\ teardown["s1"][3].result = "Ok"

\* The data of the call of s is a whole number of chunks (none, for no data).
WholeChunks(s) == snd[s].gogo /\ Len(snd[s].data) % snd[s].chunk_size = 0

\* The frames a step of a caller put on the wire.
NewFrames == SubSeq(wire', Len(wire) + 1, Len(wire'))

\* C17: a call whose data is a whole number of chunks sends exactly
\* len / chunk_size CHUNKs, each of chunk_size bytes, and then END; for no
\* data it sends no CHUNK; the receiver answers its END with OK.
NoEmptyTail ==
  /\ [](\A s \in Senders :
          WholeChunks(s) =>
            /\ snd[s].chunks <= Len(snd[s].data) \div snd[s].chunk_size
            /\ snd[s].end_sent =>
                 snd[s].chunks = Len(snd[s].data) \div snd[s].chunk_size)
  /\ [][\A s \in Senders :
          (WholeChunks(s) /\ snd'[s].chunks = snd[s].chunks + 1)
            => /\ NewFrames[1] = IdOf(s)
               /\ NewFrames[2] = CHUNK
               /\ Len(NewFrames[3]) = snd[s].chunk_size]_vars
  /\ [][\A s \in Senders :
          (WholeChunks(s) /\ Handles(END) /\ wire[1] = IdOf(s))
            => Emitted(wire[1], << <<EMPTY, OK, GREAT_SUCCESS>> >>)]_vars

\* A call with no data got OK without a CHUNK sent; the blob delivered is
\* empty.
NoEmptyTailWitness ==
  /\ snd["s1"].res = "Ok"
  /\ snd["s1"].data = << >>
  /\ snd["s1"].chunks = 0
  /\ DeliveredTo("s1", << >>)

\* The chunk loop of lines 153-177 by its numbers alone, for data too large
\* to write down: the build (the width of usize, and whether arithmetic
\* overflow panics as in a debug build or wraps as in a release build), the
\* lengths, the index of the next chunk, and what on_progress was told.
MeterLens == (1..MaxLen) \cup {9, BIG_VEC_LEN - 1, BIG_VEC_LEN}
MeterChunkSizes == (1..MaxChunk) \cup {DEFAULT_CHUNK_SIZE}
MeterNumChunks(len, cs) == (len + cs - 1) \div cs

MeterStart(bits, checked, len, cs) ==
  /\ meter = NoMeter
  /\ MeterNumChunks(len, cs) <= MaxMeterChunks
  /\ meter' = [running |-> TRUE, bits |-> bits, checked |-> checked,
               data_length |-> len, chunk_size |-> cs, chunk_index |-> 0,
               reports |-> <<0>>, panicked |-> FALSE]
  /\ UNCHANGED <<now, chunk_size, blobs, rstate, stop_chan, wire, outbox, snd,
                 completed, nsessions, matched, dropped, credit, readied,
                 pruned_at, nraw, npeer, teardown>>

MeterChunk ==
  /\ meter.running /\ ~meter.panicked
  /\ meter.chunk_index < MeterNumChunks(meter.data_length, meter.chunk_size)
  /\ LET chunk_len == Min(meter.chunk_size,
                          meter.data_length - meter.chunk_index * meter.chunk_size)
         r == ProgressUsize(meter.bits, meter.chunk_index, meter.chunk_size,
                            chunk_len, meter.data_length)
     IN meter' = IF r.overflow /\ meter.checked
                 THEN [meter EXCEPT !.panicked = TRUE]
                 ELSE [meter EXCEPT !.chunk_index = @ + 1,
                                    !.reports = Append(@, r.value)]
  /\ UNCHANGED <<now, chunk_size, blobs, rstate, stop_chan, wire, outbox, snd,
                 completed, nsessions, matched, dropped, credit, readied,
                 pruned_at, nraw, npeer, teardown>>

NextMeter ==
  \/ \E bits \in {32, 64}, checked \in BOOLEAN, len \in MeterLens, cs \in MeterChunkSizes :
       MeterStart(bits, checked, len, cs)
  \/ MeterChunk

SpecMeter == Init /\ [][NextMeter]_vars

\* C18: after "Progress: 0%", on_progress is told once per CHUNK sent the
\* floor of 100 * bytes_sent / len(D), computed without overflow; what it is
\* told never decreases, lies in 0..100, and is 100 after the last CHUNK.
ProgressReported ==
  meter.running =>
    LET len == meter.data_length
        reports == meter.reports
        bytes_sent(i) == Min(i * meter.chunk_size, len)
    IN /\ ~meter.panicked
       /\ Len(reports) = meter.chunk_index + 1
       /\ \A i \in 1..meter.chunk_index : reports[i + 1] = Times100Div(bytes_sent(i), len)
       /\ \A i \in 1..Len(reports) : reports[i] \in 0..100
       /\ \A i \in 1..(Len(reports) - 1) : reports[i] <= reports[i + 1]
       /\ meter.chunk_index = MeterNumChunks(len, meter.chunk_size)
            => reports[Len(reports)] = 100

\* C19: the hash of every blob in the table has been fed exactly the bytes
\* the blob's array holds, in order; the array of a blob never gets shorter;
\* and the bytes handed to on_complete are the bytes the hash covered.
HashCoversArray ==
  /\ [](\A k \in DOMAIN blobs : blobs[k].hash = blobs[k].array)
  /\ [][\A k \in DOMAIN blobs \cap DOMAIN blobs' :
          blobs'[k].sid = blobs[k].sid
            => Len(blobs'[k].array) >= Len(blobs[k].array)]_vars
  /\ [][(Handles(END) /\ Len(completed') = Len(completed) + 1)
          => completed'[Len(completed')].array = blobs[wire[1]].hash]_vars

\* C20: every message is read in full before the next iteration: the frame
\* at the head of the socket is always the identity of a peer, and a CHUNK
\* for a sender without a blob is read with its payload and changes nothing.
WholeMessagesRead ==
  /\ []((rstate = "running" /\ wire # << >>) => \E p \in Peers : wire[1] = IdOf(p))
  /\ [][(Handles(CHUNK) /\ wire[1] \notin DOMAIN blobs)
          => /\ Len(wire') = Len(wire) - 3
             /\ outbox' = outbox
             /\ completed' = completed
             /\ credit' = credit]_vars


\* ------------------------------------------------------------------- C21
\* The replies a step added for peer p.
NewReplies(p) == SubSeq(outbox'[p], Len(outbox[p]) + 1, Len(outbox'[p]))

\* The step admitted a START of the peer with this identity.
Admits(sender_id) ==
  /\ Handles(START)
  /\ wire[1] = sender_id
  /\ nsessions' = nsessions + 1

\* The step appended a CHUNK to the blob of the peer with this identity.
Appends(sender_id) ==
  /\ Handles(CHUNK)
  /\ wire[1] = sender_id
  /\ sender_id \in DOMAIN credit /\ sender_id \in DOMAIN credit'
  /\ credit'[sender_id].received = credit[sender_id].received + 1

IsGogoFor(parts, cs) ==
  /\ Len(parts) = 3 /\ parts[1] = EMPTY /\ parts[2] = GOGO
  /\ \A i \in 1..Len(parts[3]) : IsDigit(parts[3][i])
  /\ bytes_to_int(parts[3]) = cs

\* C21: a step that admits a START emits to its sender one GOGO carrying
\* chunk_size in decimal and then exactly MAX_SIMUL_CHUNKS TOKENs; a step
\* that appends a CHUNK emits exactly one TOKEN; no other step emits a GOGO
\* or a TOKEN to anyone.
GrantOrder ==
  [][\A p \in RawClients :
       LET new == NewReplies(p)
       IN IF Admits(IdOf(p))
          THEN /\ Len(new) = 1 + MAX_SIMUL_CHUNKS
               /\ IsGogoFor(new[1], chunk_size)
               /\ \A i \in 2..Len(new) : new[i] = <<EMPTY, TOKEN>>
          ELSE IF Appends(IdOf(p))
          THEN new = << <<EMPTY, TOKEN>> >>
          ELSE \A i \in 1..Len(new) : new[i][2] \notin {GOGO, TOKEN}]_vars

\* An admitted START and then an appended CHUNK: twelve replies, the last
\* one the TOKEN of the CHUNK.
GrantOrderWitness ==
  /\ IdOf("r1") \in DOMAIN credit
  /\ credit[IdOf("r1")].received = 1
  /\ nsessions = 1
  /\ Len(outbox["r1"]) = 2 + MAX_SIMUL_CHUNKS
  /\ outbox["r1"][2 + MAX_SIMUL_CHUNKS] = <<EMPTY, TOKEN>>


\* ------------------------------------------------------------------- C22
\* What the first of two raw clients may send: a PING, an unknown verb, a START
\* of some size or of a size that does not parse, a CHUNK, and the END that
\* fits what the receiver has hashed for it.
PairMsgs(p) ==
  {<<PING>>, <<JUNK>>, <<START, BLOB_ID, BAD_SIZE>>, <<CHUNK, <<"*">> >>}
  \cup {<<START, BLOB_ID, int_to_bytes(n)>> : n \in 1..MaxLen}
  \cup {<<END, ToHex(ResultBytes(IF IdOf(p) \in DOMAIN blobs
                                  THEN blobs[IdOf(p)].hash ELSE Sha256New))>>}

\* What the second raw client sends: a START and the CHUNKs of its session.
BystanderMsgs == {<<START, BLOB_ID, int_to_bytes(MaxLen)>>, <<CHUNK, <<"*">> >>}

\* Two raw clients, the receiver and the clock.
NextPair ==
  \/ Receiver
  \/ \E msg \in PairMsgs("r1") : RawSend("r1", msg, MaxRawMsgs)
  \/ \E msg \in BystanderMsgs : RawSend("r2", msg, MaxRawMsgs)
  \/ Tick

SpecPair == Init /\ [][NextPair]_vars

\* The step is a loop iteration of the receiver that read a message.
HandlesMessage == rstate = "running" /\ Len(wire') < Len(wire)

\* The entry of key k is the same after the step, or the prune at the top of
\* the next iteration removed it because its time_to_die has passed.
Untouched(k) ==
  /\ k \in DOMAIN blobs
  /\ \/ k \in DOMAIN blobs' /\ blobs'[k] = blobs[k]
     \/ k \notin DOMAIN blobs' /\ ~IsAlive(blobs[k], now)

\* C22: a loop iteration that handles a message read with sender_id A
\* leaves the entry of every other key as it was (creates none, changes
\* none, removes none but by TTL); the blob of A changes only when the verb
\* is CHUNK; and a PING changes no blob at all.
BlobFrame ==
  [][HandlesMessage =>
       /\ \A k \in (DOMAIN blobs \cup DOMAIN blobs') \ {wire[1]} : Untouched(k)
       /\ (/\ wire[1] \in DOMAIN blobs /\ wire[1] \in DOMAIN blobs'
           /\ blobs'[wire[1]].sid = blobs[wire[1]].sid
           /\ blobs'[wire[1]] # blobs[wire[1]]) => wire[2] = CHUNK
       /\ wire[2] = PING => \A k \in DOMAIN blobs \cup DOMAIN blobs' : Untouched(k)]_vars


\* ------------------------------------------------------------------- C23
\* The step handles a CHUNK for a sender with a blob.
ChunkForBlob == Handles(CHUNK) /\ wire[1] \in DOMAIN blobs

\* The CHUNK does not fit the session: its payload is not chunk_size bytes
\* long, or the declared size has no room left for chunk_size more bytes.
ChunkOutOfOrder ==
  /\ ChunkForBlob
  /\ \/ ~ChunkFits(blobs[wire[1]], chunk_size)
     \/ Len(wire) >= 3 /\ Len(wire[3]) # chunk_size

\* C23: whatever one peer sends, the receiver loop keeps running: a CHUNK
\* that does not fit its session and a START whose size does not parse
\* abort that session, and the loop goes on.
LoopSurvives ==
  /\ [](rstate = "running")
  /\ [][(ChunkOutOfOrder \/ (Handles(START) /\ bytes_to_int(wire[4]) = ParseError))
          => (rstate' = "running" /\ wire[1] \notin DOMAIN blobs')]_vars


\* ------------------------------------------------------------------- C24
\* The step handles a START whose size frame does not parse as a usize.
MalformedStart ==
  /\ Handles(START)
  /\ Len(wire) >= 4
  /\ bytes_to_int(wire[4]) = ParseError

\* C24: a START whose size frame does not parse leaves its sender without
\* a blob, whether it had one or not; on_ready is not consulted, no session
\* is created, nothing is sent, the loop goes on, and the entries of all
\* other senders stay as they were.
MalformedStartAborts ==
  [][MalformedStart =>
       /\ wire[1] \notin DOMAIN blobs'
       /\ readied' = readied
       /\ nsessions' = nsessions
       /\ outbox' = outbox
       /\ rstate' = "running"
       /\ \A k \in (DOMAIN blobs \cup DOMAIN blobs') \ {wire[1]} : Untouched(k)]_vars

\* Both peers were admitted, then a third START, of r1, did not parse: the
\* blob of r1 is gone and the blob of r2 is still in the table.
MalformedStartWitness ==
  /\ nraw = 3 /\ wire = << >> /\ now = 0 /\ rstate = "running"
  /\ nsessions = 2 /\ Len(readied) = 2 /\ completed = << >>
  /\ DOMAIN blobs = {IdOf("r2")} /\ blobs[IdOf("r2")].sid = 1
  /\ dropped = {2}
  /\ Len(outbox["r1"]) = 1 + MAX_SIMUL_CHUNKS


\* ------------------------------------------------------------------- C25
MaxFailIndex == 2

\* Which of a handler's first send_multipart calls return an error.
SendFaults == SUBSET (1..MaxFailIndex)

\* The receiver loop on a socket whose sends may fail.
ReceiverFaulty ==
  \/ RunIdle
  \/ \E F \in SendFaults : RecvPing(F)
  \/ \E admit \in BOOLEAN, F \in SendFaults : RecvStart(admit, F)
  \/ \E F \in SendFaults : RecvChunk(F)
  \/ \E F \in SendFaults : RecvEnd(F)
  \/ RecvInvalid

NextFail ==
  \/ ReceiverFaulty
  \/ \E msg \in RawMsgs("r1") : RawSend("r1", msg, MaxRawMsgs)
  \/ Tick

SpecFail == Init /\ [][NextFail]_vars

HasVerb(msgs, verb) == \E i \in 1..Len(msgs) : msgs[i][2] = verb

\* C25: a step that admits a START and sends no GOGO (the send failed) ends
\* with the blob of that sender removed and sends it no TOKEN; and any step
\* that sends a TOKEN to a peer leaves that peer with a blob in the table.
GogoFailureAborts ==
  /\ [][\A p \in RawClients :
          (Admits(IdOf(p)) /\ ~HasVerb(NewReplies(p), GOGO)) =>
            (IdOf(p) \notin DOMAIN blobs' /\ ~HasVerb(NewReplies(p), TOKEN))]_vars
  /\ [][\A p \in RawClients :
          HasVerb(NewReplies(p), TOKEN) => IdOf(p) \in DOMAIN blobs']_vars


\* ------------------------------------------------------------------- C26
\* The clock, for as long as a call is waiting with its deadline ahead.
TickCall ==
  /\ now < MaxTime \/ \E s \in Senders : snd[s].pc \in Waiting /\ now < snd[s].time_to_die
  /\ now' = now + TickStep
  /\ UNCHANGED <<chunk_size, blobs, rstate, stop_chan, wire, outbox, snd, completed,
                 nsessions, matched, dropped, credit, readied, pruned_at, nraw, npeer,
                 teardown, meter>>

\* The well-formed replies of a peer.
QuietPeerMsgs ==
  {<<EMPTY, PONG>>, <<EMPTY, NOGO, NOGO_ARG>>, <<EMPTY, TOKEN>>,
   <<EMPTY, OK, GREAT_SUCCESS>>, <<EMPTY, CONS, <<"r">> >>}
  \cup {<<EMPTY, GOGO, int_to_bytes(n)>> : n \in 1..MaxChunk}

\* The steps of a send_binary_blob call, consistent mode included.
CallSteps(s) ==
  \/ \E data \in OwnBlobs(s), timeout \in Timeouts, consistent \in BOOLEAN :
       Call(s, data, timeout, consistent)
  \/ RecvPong(s)
  \/ RecvGogo(s)
  \/ RecvToken(s)
  \/ RecvOk(s)
  \/ RecvCons(s)
  \/ RecvTimeout(s)

\* A call whose peer answers up to MaxPeerMsgs times and then no more.
NextQuiet ==
  \/ CallSteps("s1")
  \/ \E msg \in QuietPeerMsgs : PeerReply("s1", msg)
  \/ TickCall

\* The calling thread runs whenever it can, and time passes.
SpecQuiet ==
  Init /\ [][NextQuiet]_vars /\ WF_vars(CallSteps("s1")) /\ WF_vars(TickCall)

\* C26: a call that waits for a reply is polling for a time that is never
\* negative, at most what is left to its deadline, and at most
\* PING_TIMEOUT_MS while it waits for PONG; a call that returns while no
\* reply is waiting returns the transport error; and every call that waits,
\* in any phase, eventually returns.
CallReturns ==
  /\ [](\A s \in Senders :
          snd[s].pc \in Waiting =>
            /\ RemainingMs(snd[s], now) >= 0
            /\ snd[s].time_to_die > now => RemainingMs(snd[s], now) <= snd[s].time_to_die - now
            /\ snd[s].pc = "wait_pong" => RemainingMs(snd[s], now) <= PING_TIMEOUT_MS)
  /\ [][\A s \in Senders :
          (snd[s].pc \in Waiting /\ outbox[s] = << >> /\ snd'[s] # snd[s])
            => (snd'[s].pc = "done" /\ snd'[s].res = "ZMQ_ERROR")]_vars
  /\ (snd["s1"].pc \in Waiting) ~> (snd["s1"].pc = "done")

\* A consistent call that sent END, was answered three times and then no
\* more, and returned the transport error once its deadline had passed.
CallReturnsWitness ==
  /\ snd["s1"].pc = "done" /\ snd["s1"].res = "ZMQ_ERROR"
  /\ snd["s1"].consistent /\ snd["s1"].end_sent
  /\ npeer = 3 /\ outbox["s1"] = << >>
  /\ snd["s1"].time_to_die <= now

====
